---- MODULE Spec2Model ----
(***************************************************************************)
(* Model of the hub-duck email ingestion Lambda (src/index.js).            *)
(* One invocation of exports.handler walks a batch of S3 notification      *)
(* records; for each record it checks connectivity, fetches the email,     *)
(* resolves the duck, inserts a processed_emails row, resolves prompts,    *)
(* calls the extraction service, updates the row and materializes the      *)
(* extracted events into email_actions.                                    *)
(***************************************************************************)
EXTENDS Integers, Sequences, FiniteSets, TLC

\* ------------------------------------------------------------------ bounds
\* Records the handler is given plus direct calls of the materializer, over
\* a whole behaviour.
MaxWork == 2

\* --------------------------------------------------------------- JS values
Undefined == "<undefined>"
SqlNull == [kind |-> "null"]

\* JS truthiness of a string-or-undefined value, as used by `a || b`.
Truthy(v) == v # Undefined /\ v # ""

\* ------------------------------------------------------- trigger records
\* A record either names bucket/key directly (record.s3...) or wraps a
\* nested notification (record.Sns.Message holding JSON); the handler only
\* ever reads record.s3.bucket.name and record.s3.object.key.
RawKeys == {"a+b.eml", "mail%2F1", "c.eml", "gone.eml", "bad%"}

RecordKinds ==
  [shape : {"direct"}, rawKey : RawKeys] \cup
  {[shape |-> "nested", rawKey |-> "a+b.eml"]}

\* decodeURIComponent(rawKey.replace(/\+/g, ' ')) on the keys above;
\* a malformed percent escape makes decodeURIComponent throw URIError.
DecodeKey(raw) ==
  CASE raw = "a+b.eml"  -> [ok |-> TRUE,  key |-> "a b.eml"]
    [] raw = "mail%2F1" -> [ok |-> TRUE,  key |-> "mail/1"]
    [] raw = "c.eml"    -> [ok |-> TRUE,  key |-> "c.eml"]
    [] raw = "gone.eml" -> [ok |-> TRUE,  key |-> "gone.eml"]
    [] raw = "bad%"     -> [ok |-> FALSE, key |-> Undefined]

\* Reading bucket and key of a record (index.js 457-458): record.s3 is
\* undefined for the nested shape, so the property access throws TypeError.
ReadRecord(rec) ==
  IF rec.shape # "direct"
    THEN [ok |-> FALSE, key |-> Undefined]
    ELSE DecodeKey(rec.rawKey)

\* ------------------------------------------------------------- the store
\* Identifiers of ducks are UUID strings; the model keeps of each the parts
\* the validation regex looks at: overall 8-4-4-4-12 hex shape, the version
\* nibble and the variant nibble.
MkId(tag, version, variant) ==
  [tag |-> tag, hexShape |-> TRUE, version |-> version, variant |-> variant]

D1 == MkId("d1", 4, 8)
D2 == MkId("d2", 4, 9)
D3 == MkId("d3", 7, 11)
NoDuck == MkId("none", 4, 10)
\* D1's identifier with a character that is not a hex digit.
Garbled == [MkId("d1", 4, 8) EXCEPT !.hexShape = FALSE]

Ducks == {
  [id |-> D1, email_prefix |-> "p1", org_id |-> "o1", type |-> "school", is_active |-> TRUE],
  [id |-> D2, email_prefix |-> "p2", org_id |-> "o1", type |-> "school", is_active |-> FALSE],
  [id |-> D3, email_prefix |-> "p3", org_id |-> "o2", type |-> "club",   is_active |-> TRUE] }

Organizations == {
  [id |-> "o1", slug |-> "acme"],
  [id |-> "o2", slug |-> "beta"] }

\* Objects of the bucket, by decoded key, as parseEmailFromS3 normalizes
\* them; `to` is kept as the dot-separated tokens of the local part.
S3Objects ==
  [k \in {"a b.eml", "mail/1", "c.eml"} |->
    CASE k = "a b.eml" -> [to |-> <<"p1", "acme">>, message_id |-> "m1", content |-> "Staff meeting on May 1"]
      [] k = "mail/1"  -> [to |-> <<"p2", "acme">>, message_id |-> "m2", content |-> "Lunch menu"]
      [] k = "c.eml"   -> [to |-> <<"p3", "beta">>, message_id |-> "m3", content |-> "Club night"]]


Users1 == { [id |-> "u1", organization_id |-> "o1", role |-> "TEACHER"] }
Users2 == { [id |-> "u1", organization_id |-> "o1", role |-> "TEACHER"],
            [id |-> "u2", organization_id |-> "o1", role |-> "PARENT"] }
UsersAdmin == { [id |-> "ua", organization_id |-> "o9", role |-> "SCHOOLADMIN"] }

PromptTemplates == {"tpl1"}
DuckTypes == { [id |-> "t1", name |-> "school"], [id |-> "t2", name |-> "club"] }

\* Rows duck_prompt_overrides and duck_type_prompts may hold.
OverrideRows == {
  [id |-> "po1", duck_id |-> D1, template_id |-> "tpl1", is_active |-> TRUE,  prompt_text |-> "Extract school events. Respond in JSON format."],
  [id |-> "po2", duck_id |-> D1, template_id |-> "tpl1", is_active |-> FALSE, prompt_text |-> "Old override"],
  [id |-> "po3", duck_id |-> D1, template_id |-> "tplX", is_active |-> TRUE,  prompt_text |-> "Orphan override"],
  [id |-> "po4", duck_id |-> D1, template_id |-> "tpl1", is_active |-> TRUE,  prompt_text |-> "Also list deadlines"],
  [id |-> "po5", duck_id |-> D2, template_id |-> "tpl1", is_active |-> TRUE,  prompt_text |-> "Other duck"] }

TypePromptRows == {
  [id |-> "tp1", duck_type_id |-> "t1", version |-> 1, is_active |-> TRUE,  prompt_text |-> "School v1"],
  [id |-> "tp2", duck_type_id |-> "t1", version |-> 2, is_active |-> TRUE,  prompt_text |-> "School v2"],
  [id |-> "tp3", duck_type_id |-> "t1", version |-> 3, is_active |-> FALSE, prompt_text |-> "School v3"],
  [id |-> "tp4", duck_type_id |-> "t2", version |-> 5, is_active |-> TRUE,  prompt_text |-> "Club v5"] }

DefaultPromptText == "Process this email focusing on key information including: events/dates, action items/deadlines, updates/changes, responses/decisions"

\* ------------------------------------------------------------- variables
VARIABLES
  users,        \* table users
  overrides,    \* table duck_prompt_overrides
  typePrompts,  \* table duck_type_prompts
  emails,       \* table processed_emails, row id = position
  actions,      \* table email_actions, in insertion order
  conn,         \* the invocation's pg client: "none", "open", "closed"
  connects,     \* client.connect() calls that succeeded in this invocation
  ends,         \* client.end() calls in this invocation
  lateQuery,    \* a store query was issued on a client that is not open
  pc,           \* position of the handler
  batchLen,     \* event.Records.length
  idx,          \* index of the record the loop is at
  cur,          \* locals of the record in progress
  outcomes,     \* per record of this invocation: how its processing ended
  statusCode,   \* statusCode of the value the handler returns (0: none yet)
  used,         \* records handed to the handler plus direct materializer calls so far
  matLog,       \* direct calls of extractAndSaveEmailActions so far
  lastPrompts,  \* argument and result of the last direct getPromptsForDuckType call
  lastCall      \* arguments and result of the last direct call of getDuckId or combinePrompts

storeConfig == <<users, overrides, typePrompts>>
vars == <<users, overrides, typePrompts, emails, actions, conn, connects, ends,
          lateQuery, pc, batchLen, idx, cur, outcomes, statusCode, used,
          matLog, lastPrompts, lastCall>>

\* --------------------------------------------------------- pure helpers
Perms(S) ==
  {f \in [1..Cardinality(S) -> S] : \A i, j \in 1..Cardinality(S) : f[i] = f[j] => i = j}

\* A validation that lets every identifier through.
IsValidUUIDAnyId(id) == TRUE

\* isValidUUID: /^[0-9a-f]{8}-[0-9a-f]{4}-[1-5][0-9a-f]{3}-[89ab][0-9a-f]{3}-[0-9a-f]{12}$/i
IsValidUUID(id) ==
  id.hexShape /\ id.version \in 1..5 /\ id.variant \in {8, 9, 10, 11}

\* getDuckId: toAddress.split('@')[0].split('.') destructured into
\* [emailPrefix, orgSlug]; the join query; throw when no row.
GetDuckId(to) ==
  LET emailPrefix == IF Len(to) >= 1 THEN to[1] ELSE Undefined
      orgSlug == IF Len(to) >= 2 THEN to[2] ELSE Undefined
      rows == {d \in Ducks :
                 /\ d.email_prefix = emailPrefix
                 /\ \E o \in Organizations : d.org_id = o.id /\ o.slug = orgSlug
                 /\ d.is_active}
  IN IF rows = {}
       THEN [ok |-> FALSE, id |-> NoDuck]
       ELSE [ok |-> TRUE, id |-> (CHOOSE d \in rows : TRUE).id]

PromptError(err, queries) ==
  [ok |-> FALSE, err |-> err, prompts |-> <<>>, queries |-> queries]

PromptTexts(rowSeq, queries) ==
  [ok |-> TRUE, err |-> "", prompts |-> [i \in DOMAIN rowSeq |-> rowSeq[i].prompt_text],
   queries |-> queries]

\* Rows of the override query: the duck's active overrides joined to
\* prompt_templates on template_id.
OverrideQuery(duckId) ==
  {po \in overrides :
     /\ po.duck_id = duckId
     /\ po.is_active
     /\ \E pt \in PromptTemplates : po.template_id = pt}

\* Rows of the type-prompt query for a duck type name.
TypePromptsQuery(duckType) ==
  {dtp \in typePrompts :
     /\ dtp.is_active
     /\ \E dt \in DuckTypes : dtp.duck_type_id = dt.id /\ dt.name = duckType}

\* getPromptsForDuckType consulting the type tier before the overrides.
GetPromptsTypeFirst(duckId) ==
  IF ~IsValidUUID(duckId)
    THEN {PromptError("Invalid UUID", <<>>)}
    ELSE
      LET ov == OverrideQuery(duckId)
          duckRows == {d \in Ducks : d.id = duckId}
      IN IF duckRows = {}
           THEN {PromptError("Duck not found", <<"duck">>)}
           ELSE
             LET tp == TypePromptsQuery((CHOOSE d \in duckRows : TRUE).type)
                 sorted == {p \in Perms(tp) :
                              \A i, j \in DOMAIN p : i < j => p[i].version >= p[j].version}
             IN IF tp # {}
                  THEN {PromptTexts(p, <<"duck", "type">>) : p \in sorted}
                  ELSE IF ov # {}
                    THEN {PromptTexts(p, <<"duck", "type", "override">>) : p \in Perms(ov)}
                    ELSE {[ok |-> TRUE, err |-> "", prompts |-> <<DefaultPromptText>>,
                           queries |-> <<"duck", "type", "override">>]}

\* Possible results of getPromptsForDuckType(client, duckId): the store
\* returns rows of a query without ORDER BY in any order, and rows of equal
\* version in any order.
GetPromptsForDuckType(duckId) ==
  IF ~IsValidUUID(duckId)
    THEN {PromptError("Invalid UUID", <<>>)}
    ELSE
      LET ov == OverrideQuery(duckId)
          duckRows == {d \in Ducks : d.id = duckId}
      IN IF ov # {}
           THEN {PromptTexts(p, <<"override">>) : p \in Perms(ov)}
           ELSE IF duckRows = {}
             THEN {PromptError("Duck not found", <<"override", "duck">>)}
             ELSE
               LET tp == TypePromptsQuery((CHOOSE d \in duckRows : TRUE).type)
                   sorted == {p \in Perms(tp) :
                                \A i, j \in DOMAIN p : i < j => p[i].version >= p[j].version}
               IN IF tp = {}
                    THEN {[ok |-> TRUE, err |-> "", prompts |-> <<DefaultPromptText>>,
                           queries |-> <<"override", "duck", "type">>]}
                    ELSE {PromptTexts(p, <<"override", "duck", "type">>) : p \in sorted}

\* Texts are sequences of pieces (words or longer runs of characters that
\* hold no part of the phrase tested below); the text is their
\* concatenation.  Words splits the texts of the tables above.
Words(text) ==
  IF text = "Extract school events. Respond in JSON format."
    THEN <<"Extract school events. Respond in", "JSON", "format", ".">>
    ELSE <<text>>

BlankLine == "\n\n"
JsonFormatPhrase == <<"JSON", "format">>

\* String.prototype.includes on pieces.
Includes(text, phrase) ==
  \E i \in 1..(Len(text) - Len(phrase) + 1) :
    SubSeq(text, i, i + Len(phrase) - 1) = phrase

\* prompts.map(p => p.promptText).join('\n\n')
RECURSIVE JoinPrompts(_)
JoinPrompts(prompts) ==
  IF prompts = <<>> THEN <<>>
  ELSE IF Len(prompts) = 1 THEN prompts[1]
  ELSE prompts[1] \o <<BlankLine>> \o JoinPrompts(Tail(prompts))

AnalyzeHeader == <<BlankLine, "Analyze the following email:", BlankLine>>

SchemaBlock ==
  <<"Respond in the following", "JSON", "format", ":",
    "{ events: [...], actions: [...], summary, categories, importance }">>

\* The variant that looks for the phrase in the whole combined prompt,
\* email content included.
CombinePromptsWholeText(emailContent, prompts) ==
  LET promptInstructions == JoinPrompts(prompts)
      combinedPrompt == promptInstructions \o AnalyzeHeader \o emailContent \o <<BlankLine>>
  IN  IF ~Includes(combinedPrompt, JsonFormatPhrase)
        THEN combinedPrompt \o SchemaBlock
        ELSE combinedPrompt

\* combinePrompts: the instructions joined by blank lines, the email
\* content, and the default schema block unless the joined instructions
\* hold the phrase 'JSON format'.
CombinePrompts(emailContent, prompts) ==
  LET promptInstructions == JoinPrompts(prompts)
      combinedPrompt == promptInstructions \o AnalyzeHeader \o emailContent \o <<BlankLine>>
  IN  IF ~Includes(promptInstructions, JsonFormatPhrase)
        THEN combinedPrompt \o SchemaBlock
        ELSE combinedPrompt

\* ---------------------------------------------------- extraction texts
TxtGarbage == "Sure! Here is the JSON you asked for: {events: ..."
TxtNull == "null"
TxtNumber == "42"
TxtNoEvents == "{\"summary\":\"Lunch menu for May\"}"
TxtEmpty == "{\"events\":[]}"
TxtOne == "{\"events\":[{\"title\":\"Staff meeting\",\"date\":\"2024-05-01\",\"time\":\"10:00 AM\",\"location\":\"Room 2\"}]}"
TxtTwo == "{\"events\":[{\"title\":\"Staff meeting\",\"date\":\"2024-05-01\"},{\"description\":\"Bake sale in the hall\",\"date\":\"2024-05-03\",\"location\":\"Hall\"}]}"

AiTexts == {TxtGarbage, TxtNull, TxtNumber, TxtNoEvents, TxtEmpty, TxtOne, TxtTwo}

EventStaff ==
  [title |-> "Staff meeting", date |-> "2024-05-01", time |-> "10:00 AM",
   location |-> "Room 2", description |-> Undefined]
EventStaffShort ==
  [title |-> "Staff meeting", date |-> "2024-05-01", time |-> Undefined,
   location |-> Undefined, description |-> Undefined]
EventBake ==
  [title |-> Undefined, date |-> "2024-05-03", time |-> Undefined,
   location |-> "Hall", description |-> "Bake sale in the hall"]

JsonObject(hasEvents, events) ==
  [kind |-> "object", hasEvents |-> hasEvents, events |-> events]

\* JSON.parse on the texts above: ok = FALSE is a thrown SyntaxError.
JsonParse(text) ==
  CASE text = TxtGarbage  -> [ok |-> FALSE, value |-> SqlNull]
    [] text = TxtNull     -> [ok |-> TRUE, value |-> SqlNull]
    [] text = TxtNumber   -> [ok |-> TRUE, value |-> [kind |-> "number"]]
    [] text = TxtNoEvents -> [ok |-> TRUE, value |-> JsonObject(FALSE, <<>>)]
    [] text = TxtEmpty    -> [ok |-> TRUE, value |-> JsonObject(TRUE, <<>>)]
    [] text = TxtOne      -> [ok |-> TRUE, value |-> JsonObject(TRUE, <<EventStaff>>)]
    [] text = TxtTwo      -> [ok |-> TRUE, value |-> JsonObject(TRUE, <<EventStaffShort, EventBake>>)]

\* The extraction schema of the payload: an object whose events field is
\* a sequence (possibly empty).
ConformsToSchema(value) == value.kind = "object" /\ value.hasEvents

\* --------------------------------------------------- action materializer
\* The two lookups in the other order: the administrator first, a user of
\* the organization only when there is no administrator.
ActingUsersAdminFirst(duckId) ==
  LET orgs == {d.org_id : d \in {x \in Ducks : x.id = duckId}}
      inOrg == {u \in users : u.organization_id \in orgs}
      admins == {u \in users : u.role = "SCHOOLADMIN"}
  IN IF admins # {} THEN {u.id : u \in admins} ELSE {u.id : u \in inOrg}

\* getDefaultUserId / getDefaultAdminUserId: the ids either query may
\* return first (LIMIT 1 without ORDER BY); empty when the call throws.
ActingUsers(duckId) ==
  LET orgs == {d.org_id : d \in {x \in Ducks : x.id = duckId}}
      inOrg == {u \in users : u.organization_id \in orgs}
      admins == {u \in users : u.role = "SCHOOLADMIN"}
  IN IF inOrg # {} THEN {u.id : u \in inOrg} ELSE {u.id : u \in admins}

\* The duplicate check left out: no existing action is ever found.
ExistingActionUnchecked(acts, userId, emailId, actionType) == {}

ExistingAction(acts, userId, emailId, actionType) ==
  {i \in DOMAIN acts :
     /\ acts[i].user_id = userId
     /\ acts[i].email_id = emailId
     /\ acts[i].action_type = actionType}

\* The INSERT of the saveEmailActions variant, which names no user_id.
NewActionNoUser(emailId, duckId, userId, event) ==
  [email_id |-> emailId,
   duck_id |-> duckId,
   user_id |-> Undefined,
   action_type |-> "EVENT",
   context |-> [date |-> event.date, time |-> event.time, location |-> event.location],
   note |-> IF Truthy(event.title) THEN event.title
            ELSE IF Truthy(event.description) THEN event.description
            ELSE "No title provided",
   status |-> "ACTIVE"]

NewAction(emailId, duckId, userId, event) ==
  [email_id |-> emailId,
   duck_id |-> duckId,
   user_id |-> userId,
   action_type |-> "EVENT",
   context |-> [date |-> event.date, time |-> event.time, location |-> event.location],
   note |-> IF Truthy(event.title) THEN event.title
            ELSE IF Truthy(event.description) THEN event.description
            ELSE "No title provided",
   status |-> "ACTIVE"]

\* The loop over parsedResults.events from event k on: pick[k] is the user
\* getDefaultUserId returns for event k, failAt the event at which a store
\* query is rejected (0: none).
RECURSIVE EventLoop(_, _, _, _, _, _, _)
EventLoop(acts, events, k, emailId, duckId, pick, failAt) ==
  IF k > Len(events) THEN [ok |-> TRUE, actions |-> acts]
  ELSE IF failAt = k \/ ActingUsers(duckId) = {} THEN [ok |-> FALSE, actions |-> acts]
  ELSE IF ExistingAction(acts, pick[k], emailId, "EVENT") # {}
    THEN EventLoop(acts, events, k + 1, emailId, duckId, pick, failAt)
    ELSE EventLoop(Append(acts, NewAction(emailId, duckId, pick[k], events[k])),
                   events, k + 1, emailId, duckId, pick, failAt)

\* extractAndSaveEmailActions(client, emailId, duckId, aiResults) on the
\* action table acts: the table it leaves and whether it returned (ok) or
\* threw.
ExtractAndSaveEmailActions(acts, emailId, duckId, aiResults, pick, failAt) ==
  LET parsed == JsonParse(aiResults)
  IN IF ~parsed.ok THEN [ok |-> FALSE, actions |-> acts]
     ELSE IF parsed.value.kind = "null" THEN [ok |-> FALSE, actions |-> acts]
     ELSE IF parsed.value.kind = "object" /\ parsed.value.hasEvents
             /\ Len(parsed.value.events) > 0
       THEN EventLoop(acts, parsed.value.events, 1, emailId, duckId, pick, failAt)
       ELSE [ok |-> TRUE, actions |-> acts]

\* Number of events the materializer would loop over for a text.
EventCount(aiResults) ==
  LET parsed == JsonParse(aiResults)
  IN IF parsed.ok /\ parsed.value.kind = "object" /\ parsed.value.hasEvents
       THEN Len(parsed.value.events) ELSE 0

\* The choices of the environment during one materializer call.
Picks(duckId, aiResults) ==
  IF ActingUsers(duckId) = {}
    THEN {[i \in 1..EventCount(aiResults) |-> Undefined]}
    ELSE [1..EventCount(aiResults) -> ActingUsers(duckId)]

\* ------------------------------------------------------------ the handler
NoEmail == [to |-> <<>>, message_id |-> "", content |-> ""]
NoPrompt == <<>>
NoProbe == [fn |-> "none"]
NoCall == [called |-> FALSE, duckId |-> NoDuck, result |-> PromptError("", <<>>)]

CurInit ==
  [shape |-> Undefined, key |-> Undefined, email |-> NoEmail, duckId |-> NoDuck, emailId |-> 0,
   prompt |-> NoPrompt, aiResults |-> Undefined]

StoreConfigs == {
  <<Users1, {r \in OverrideRows : r.id \in {"po1", "po2"}}, TypePromptRows>>,
  <<Users2, {}, TypePromptRows>>,
  <<UsersAdmin, {r \in OverrideRows : r.id = "po3"}, {}>>,
  <<{}, {r \in OverrideRows : r.id = "po2"}, {r \in TypePromptRows : r.id = "tp3"}>>,
  <<Users1 \cup UsersAdmin, {r \in OverrideRows : r.id = "po4"}, TypePromptRows>> }

HandlerIdle ==
  /\ conn = "none" /\ connects = 0 /\ ends = 0 /\ lateQuery = FALSE
  /\ pc = "idle" /\ batchLen = 0 /\ idx = 1 /\ cur = CurInit
  /\ outcomes = <<>> /\ statusCode = 0 /\ used = 0

Init ==
  /\ \E c \in StoreConfigs : users = c[1] /\ overrides = c[2] /\ typePrompts = c[3]
  /\ emails = <<>>
  /\ actions = <<>>
  /\ HandlerIdle
  /\ matLog = <<>>
  /\ lastPrompts = NoCall
  /\ lastCall = NoProbe

\* How the processing of one record ended: "ok" (the inner try ran to its
\* end), "failed" (the inner catch caught a throw of `stage`) or "escaped"
\* (a throw outside the inner try); emailId is the row inserted for it, 0
\* when none was.
Outcome(shape, status, stage, emailId) ==
  [shape |-> shape, status |-> status, stage |-> stage, emailId |-> emailId]

\* A store query on the handler's client.
Query == lateQuery' = (lateQuery \/ conn # "open")

\* An inner catch that swallows the error where it happened: the record
\* goes on with its last stage instead of ending.
CatchInnerGoOn(stage) ==
  /\ outcomes' = outcomes
  /\ idx' = idx
  /\ cur' = cur
  /\ pc' = "materialize"

\* The inner catch (index.js 494-496): log the record, go on with the next.
CatchInner(stage) ==
  /\ outcomes' = Append(outcomes, Outcome(cur.shape, "failed", stage, cur.emailId))
  /\ idx' = idx + 1
  /\ cur' = CurInit
  /\ pc' = "loop"

\* exports.handler is called with a batch of records (possibly none). The
\* handler looks at record idx only at the head of iteration idx, so the
\* record is drawn there.
Invoke ==
  /\ pc = "idle"
  /\ \E n \in 0..(MaxWork - used) : batchLen' = n /\ used' = used + n
  /\ pc' = "connect"
  /\ conn' = "none" /\ connects' = 0 /\ ends' = 0 /\ lateQuery' = FALSE
  /\ idx' = 1 /\ cur' = CurInit /\ outcomes' = <<>> /\ statusCode' = 0
  /\ UNCHANGED <<storeConfig, emails, actions, matLog, lastPrompts, lastCall>>

\* client = await getDbConnection(): connect() resolves or rejects; a
\* rejection leaves client undefined and lands in the outer catch.
GetDbConnection ==
  /\ pc = "connect"
  /\ \E ok \in BOOLEAN :
       IF ok
         THEN /\ conn' = "open" /\ connects' = connects + 1
              /\ pc' = "loop" /\ statusCode' = statusCode
         ELSE /\ conn' = conn /\ connects' = connects
              /\ pc' = "finally" /\ statusCode' = 500
  /\ UNCHANGED <<storeConfig, emails, actions, ends, lateQuery, batchLen, idx, cur,
                 outcomes, used, matLog, lastPrompts, lastCall>>

\* Head of the for loop and the reads of record.s3.bucket.name and
\* record.s3.object.key, which stand before the inner try: a throw there is
\* caught by the outer catch.
NextRecord ==
  /\ pc = "loop"
  /\ IF idx > batchLen
       THEN /\ statusCode' = 200 /\ pc' = "finally"
            /\ UNCHANGED <<cur, outcomes>>
       ELSE \E rec \in RecordKinds :
              LET r == ReadRecord(rec)
              IN IF r.ok
                   THEN /\ cur' = [CurInit EXCEPT !.shape = rec.shape, !.key = r.key]
                        /\ pc' = "net"
                        /\ UNCHANGED <<statusCode, outcomes>>
                   ELSE /\ outcomes' = Append(outcomes, Outcome(rec.shape, "escaped", "read", 0))
                        /\ statusCode' = 500
                        /\ pc' = "finally"
                        /\ cur' = CurInit
  /\ UNCHANGED <<storeConfig, emails, actions, conn, connects, ends, lateQuery,
                 batchLen, idx, used, matLog, lastPrompts, lastCall>>

\* testInternetConnection() and the throw when it returns false.
TestInternetConnection ==
  /\ pc = "net"
  /\ \E up \in BOOLEAN :
       IF up THEN pc' = "aicheck" /\ UNCHANGED <<idx, cur, outcomes>>
             ELSE CatchInner("net")
  /\ UNCHANGED <<storeConfig, emails, actions, conn, connects, ends, lateQuery,
                 batchLen, statusCode, used, matLog, lastPrompts, lastCall>>

\* testOpenAIConnection() and the throw when it returns false.
TestOpenAIConnection ==
  /\ pc = "aicheck"
  /\ \E up \in BOOLEAN :
       IF up THEN pc' = "fetch" /\ UNCHANGED <<idx, cur, outcomes>>
             ELSE CatchInner("aicheck")
  /\ UNCHANGED <<storeConfig, emails, actions, conn, connects, ends, lateQuery,
                 batchLen, statusCode, used, matLog, lastPrompts, lastCall>>

\* parseEmailFromS3(bucket, key): getObject rejects for an absent object.
ParseEmailFromS3 ==
  /\ pc = "fetch"
  /\ IF cur.key \in DOMAIN S3Objects
       THEN /\ cur' = [cur EXCEPT !.email = S3Objects[cur.key]]
            /\ pc' = "duck"
            /\ UNCHANGED <<idx, outcomes>>
       ELSE CatchInner("fetch")
  /\ UNCHANGED <<storeConfig, emails, actions, conn, connects, ends, lateQuery,
                 batchLen, statusCode, used, matLog, lastPrompts, lastCall>>

\* getDuckId(client, parsedEmail.to).
GetDuckIdStep ==
  /\ pc = "duck"
  /\ Query
  /\ \E dbErr \in BOOLEAN :
       LET r == GetDuckId(cur.email.to)
       IN IF ~dbErr /\ r.ok
            THEN /\ cur' = [cur EXCEPT !.duckId = r.id]
                 /\ pc' = "insert"
                 /\ UNCHANGED <<idx, outcomes>>
            ELSE CatchInner("duck")
  /\ UNCHANGED <<storeConfig, emails, actions, conn, connects, ends,
                 batchLen, statusCode, used, matLog, lastPrompts, lastCall>>

\* saveEmailToDb writing the final status at creation.
NewEmailRowProcessed(duckId, parsedEmail, s3Key) ==
  [duck_id |-> duckId, message_id |-> parsedEmail.message_id, s3_key |-> s3Key,
   processing_status |-> "PROCESSED", extracted_data |-> SqlNull]

\* The row saveEmailToDb inserts; extracted_data is not among the columns
\* of the INSERT and stays NULL.
NewEmailRow(duckId, parsedEmail, s3Key) ==
  [duck_id |-> duckId, message_id |-> parsedEmail.message_id, s3_key |-> s3Key,
   processing_status |-> "RECEIVED", extracted_data |-> SqlNull]

\* saveEmailToDb(client, duckId, parsedEmail, key) RETURNING id.
SaveEmailToDb ==
  /\ pc = "insert"
  /\ Query
  /\ \E dbErr \in BOOLEAN :
       IF ~dbErr
         THEN /\ emails' = Append(emails, NewEmailRow(cur.duckId, cur.email, cur.key))
              /\ cur' = [cur EXCEPT !.emailId = Len(emails) + 1]
              /\ pc' = "prompts"
              /\ UNCHANGED <<idx, outcomes>>
         ELSE CatchInner("insert") /\ UNCHANGED emails
  /\ UNCHANGED <<storeConfig, actions, conn, connects, ends,
                 batchLen, statusCode, used, matLog, lastPrompts, lastCall>>

\* getPromptsForDuckType(client, duckId) and combinePrompts.
GetPromptsStep ==
  /\ pc = "prompts"
  /\ lateQuery' = (lateQuery \/ (IsValidUUID(cur.duckId) /\ conn # "open"))
  /\ \E dbErr \in BOOLEAN, r \in GetPromptsForDuckType(cur.duckId) :
       IF r.ok /\ ~dbErr
         THEN /\ cur' = [cur EXCEPT !.prompt = CombinePrompts(Words(cur.email.content),
                                                               [i \in DOMAIN r.prompts |-> Words(r.prompts[i])])]
              /\ pc' = "extract"
              /\ UNCHANGED <<idx, outcomes>>
         ELSE CatchInner("prompts")
  /\ UNCHANGED <<storeConfig, emails, actions, conn, connects, ends,
                 batchLen, statusCode, used, matLog, lastPrompts, lastCall>>

\* processEmailWithAI(combinedPrompt): the completion text, or a throw.
ProcessEmailWithAI ==
  /\ pc = "extract"
  /\ \E r \in AiTexts \cup {Undefined} :
       IF r # Undefined
         THEN /\ cur' = [cur EXCEPT !.aiResults = r]
              /\ pc' = "update"
              /\ UNCHANGED <<idx, outcomes>>
         ELSE CatchInner("extract")
  /\ UNCHANGED <<storeConfig, emails, actions, conn, connects, ends, lateQuery,
                 batchLen, statusCode, used, matLog, lastPrompts, lastCall>>

\* The UPDATE of saveProcessedResults on row emailId.
UpdateProcessed(rows, emailId, parsedResults) ==
  [rows EXCEPT ![emailId] = [@ EXCEPT !.processing_status = "PROCESSED",
                                      !.extracted_data = parsedResults]]

\* saveProcessedResults without its UPDATE: the text is parsed and the
\* record goes on, its row left as it was inserted.
SaveProcessedResultsNoUpdate ==
  /\ pc = "update"
  /\ IF JsonParse(cur.aiResults).ok
       THEN pc' = "materialize" /\ UNCHANGED <<idx, cur, outcomes>>
       ELSE CatchInner("update")
  /\ UNCHANGED <<storeConfig, emails, actions, conn, connects, ends, lateQuery,
                 batchLen, statusCode, used, matLog, lastPrompts, lastCall>>

\* saveProcessedResults issuing the UPDATE before it validates the text:
\* a text that does not parse still marks the row PROCESSED, then throws.
SaveProcessedResultsUnvalidated ==
  /\ pc = "update"
  /\ Query
  /\ LET parsed == JsonParse(cur.aiResults)
     IN /\ emails' = UpdateProcessed(emails, cur.emailId, parsed.value)
        /\ IF parsed.ok
             THEN pc' = "materialize" /\ UNCHANGED <<idx, cur, outcomes>>
             ELSE CatchInner("update")
  /\ UNCHANGED <<storeConfig, actions, conn, connects, ends,
                 batchLen, statusCode, used, matLog, lastPrompts, lastCall>>

\* saveProcessedResults(client, emailId, aiResults): JSON.parse, then the
\* UPDATE; either may throw.
SaveProcessedResults ==
  /\ pc = "update"
  /\ LET parsed == JsonParse(cur.aiResults)
     IN IF ~parsed.ok
          THEN CatchInner("update") /\ UNCHANGED <<emails, lateQuery>>
          ELSE /\ Query
               /\ \E dbErr \in BOOLEAN :
                    IF ~dbErr
                      THEN /\ emails' = UpdateProcessed(emails, cur.emailId, parsed.value)
                           /\ pc' = "materialize"
                           /\ UNCHANGED <<idx, cur, outcomes>>
                      ELSE CatchInner("update") /\ UNCHANGED emails
  /\ UNCHANGED <<storeConfig, actions, conn, connects, ends,
                 batchLen, statusCode, used, matLog, lastPrompts, lastCall>>

\* extractAndSaveEmailActions(client, emailId, duckId, aiResults) and the
\* end of the inner try.
MaterializeStep ==
  /\ pc = "materialize"
  /\ lateQuery' = (lateQuery \/ (EventCount(cur.aiResults) > 0 /\ conn # "open"))
  /\ \E pick \in Picks(cur.duckId, cur.aiResults), failAt \in 0..EventCount(cur.aiResults) :
       LET r == ExtractAndSaveEmailActions(actions, cur.emailId, cur.duckId,
                                           cur.aiResults, pick, failAt)
       IN /\ actions' = r.actions
          /\ IF r.ok
               THEN /\ outcomes' = Append(outcomes, Outcome(cur.shape, "ok", "materialize", cur.emailId))
                    /\ idx' = idx + 1
                    /\ cur' = CurInit
                    /\ pc' = "loop"
               ELSE CatchInner("materialize")
  /\ UNCHANGED <<storeConfig, emails, conn, connects, ends,
                 batchLen, statusCode, used, matLog, lastPrompts, lastCall>>

\* Finally with client.end() moved to the end of the try block: the client
\* is released only on the path that returns 200.
FinallyEndInTry ==
  /\ pc = "finally"
  /\ IF conn # "none" /\ statusCode = 200
       THEN conn' = "closed" /\ ends' = ends + 1
       ELSE UNCHANGED <<conn, ends>>
  /\ pc' = "idle"
  /\ UNCHANGED <<storeConfig, emails, actions, connects, lateQuery, batchLen, idx, cur,
                 outcomes, statusCode, used, matLog, lastPrompts, lastCall>>

\* The finally block: client.end() when client was assigned; then the
\* handler's promise settles with the value of the return statement taken.
Finally ==
  /\ pc = "finally"
  /\ IF conn # "none"
       THEN conn' = "closed" /\ ends' = ends + 1
       ELSE UNCHANGED <<conn, ends>>
  /\ pc' = "idle"
  /\ UNCHANGED <<storeConfig, emails, actions, connects, lateQuery, batchLen, idx, cur,
                 outcomes, statusCode, used, matLog, lastPrompts, lastCall>>

\* A direct call of extractAndSaveEmailActions for a stored email, between
\* invocations of the handler.
DirectMaterialize ==
  /\ pc = "idle"
  /\ used < MaxWork
  /\ used' = used + 1
  /\ \E emailId \in DOMAIN emails, text \in AiTexts :
       LET duckId == emails[emailId].duck_id
       IN \E pick \in Picks(duckId, text), failAt \in 0..EventCount(text) :
            LET r == ExtractAndSaveEmailActions(actions, emailId, duckId, text, pick, failAt)
            IN /\ actions' = r.actions
               /\ matLog' = Append(matLog,
                    [emailId |-> emailId, duckId |-> duckId, text |-> text, ok |-> r.ok,
                     pick |-> pick,
                     before |-> SelectSeq(actions, LAMBDA a : a.email_id = emailId),
                     after |-> SelectSeq(r.actions, LAMBDA a : a.email_id = emailId)])
  /\ UNCHANGED <<storeConfig, emails, conn, connects, ends, lateQuery, pc, batchLen,
                 idx, cur, outcomes, statusCode, lastPrompts, lastCall>>

Next ==
  \/ Invoke
  \/ GetDbConnection
  \/ NextRecord
  \/ TestInternetConnection
  \/ TestOpenAIConnection
  \/ ParseEmailFromS3
  \/ GetDuckIdStep
  \/ SaveEmailToDb
  \/ GetPromptsStep
  \/ ProcessEmailWithAI
  \/ SaveProcessedResults
  \/ MaterializeStep
  \/ Finally
  \/ DirectMaterialize

Spec == Init /\ [][Next]_vars

\* ------------------------------------------------------------ properties
\* The handler has returned from an invocation.
Completed == pc = "idle" /\ statusCode # 0

\* C1: failure isolation. When an invocation has completed, every record
\* after a record whose processing failed (at whatever point, the read of
\* its bucket and key included) was attempted in that invocation.
C1_FailureIsolation ==
  Completed =>
    \A i \in DOMAIN outcomes :
      outcomes[i].status # "ok" =>
        \A j \in (i + 1)..batchLen : j \in DOMAIN outcomes

\* C2: invocation result. With the connection established the handler
\* returns 200 after attempting every record; it returns 500 only when the
\* connection failed, and then no record was attempted.
C2_InvocationResult ==
  Completed =>
    IF connects > 0
      THEN statusCode = 200 /\ Len(outcomes) = batchLen
      ELSE statusCode = 500 /\ outcomes = <<>>

\* C3: connection release. The client is connected at most once per
\* invocation, never ended more often than connected, ended exactly once by
\* the time the handler completes when it was connected and not at all when
\* it was not, and no store query is issued on a client that is not open.
C3_ConnectionRelease ==
  /\ connects <= 1
  /\ ends <= connects
  /\ ~lateQuery
  /\ (conn = "open") = (connects = 1 /\ ends = 0)
  /\ Completed => ends = connects
  /\ pc \in {"net", "aicheck", "fetch", "duck", "insert", "prompts", "extract",
             "update", "materialize", "loop"} => conn = "open"

\* An invocation completed with its client released once although one
\* record failed and an error then escaped the record loop.
C3_Witness ==
  /\ Completed
  /\ connects = 1 /\ ends = 1 /\ conn = "closed"
  /\ Len(outcomes) = 2
  /\ outcomes[1].status = "failed"
  /\ outcomes[2].status = "escaped"

\* ----------------------------------------------- materializer, directly
\* The store two direct materializer calls start from: two stored emails
\* (one of duck D1, one of duck D3) and no action.
MatEmails ==
  << NewEmailRow(D1, S3Objects["a b.eml"], "a b.eml"),
     NewEmailRow(D3, S3Objects["c.eml"], "c.eml") >>

InitMat ==
  /\ \E c \in StoreConfigs : users = c[1] /\ overrides = c[2] /\ typePrompts = c[3]
  /\ emails = MatEmails
  /\ actions = <<>>
  /\ HandlerIdle
  /\ matLog = <<>>
  /\ lastPrompts = NoCall
  /\ lastCall = NoProbe

NextMat == DirectMaterialize

SpecMat == InitMat /\ [][NextMat]_vars

\* The first two direct calls were given the same (email id, tenant id,
\* AI text), and the email had no action before the first.
CalledTwice ==
  /\ Len(matLog) >= 2
  /\ matLog[1].before = <<>>
  /\ matLog[1].emailId = matLog[2].emailId
  /\ matLog[1].duckId = matLog[2].duckId
  /\ matLog[1].text = matLog[2].text

\* Both calls returned, and the tenant has one candidate acting user.
BothReturnedOneUser ==
  /\ CalledTwice
  /\ matLog[1].ok /\ matLog[2].ok
  /\ Cardinality(ActingUsers(matLog[1].duckId)) = 1

\* C4 as claimed: two calls with the same arguments leave one action row
\* per event of the events array, n rows after the first call and n after
\* the second (stated for calls that return, with one candidate acting
\* user).
C4_OneRowPerEvent ==
  BothReturnedOneUser =>
    /\ Len(matLog[1].after) = EventCount(matLog[1].text)
    /\ Len(matLog[2].after) = EventCount(matLog[1].text)

\* C4 amended: two calls with the same arguments leave at most one action
\* row per (user, email); when both return and the tenant has one candidate
\* acting user, that is one row, for the first event, if the events array
\* is non-empty and none otherwise, after the first call and unchanged
\* after the second.
C4_Idempotent ==
  CalledTwice =>
    /\ \A i, j \in DOMAIN matLog[2].after :
         matLog[2].after[i].user_id = matLog[2].after[j].user_id => i = j
    /\ BothReturnedOneUser =>
         /\ Len(matLog[1].after) = (IF EventCount(matLog[1].text) > 0 THEN 1 ELSE 0)
         /\ matLog[2].after = matLog[1].after
         /\ \A i \in DOMAIN matLog[1].after :
              \E u \in ActingUsers(matLog[1].duckId) :
                matLog[1].after[i] =
                  NewAction(matLog[1].emailId, matLog[1].duckId, u,
                            JsonParse(matLog[1].text).value.events[1])

\* Two returning calls with a two-event text left a single row.
C4_Witness ==
  /\ BothReturnedOneUser
  /\ matLog[1].text = TxtTwo
  /\ Len(matLog[2].after) = 1

\* C5: the action table never holds two rows with the same (user, email,
\* action type).
C5_UniqueActions ==
  \A i, j \in DOMAIN actions :
    ( /\ actions[i].user_id = actions[j].user_id
      /\ actions[i].email_id = actions[j].email_id
      /\ actions[i].action_type = actions[j].action_type ) => i = j

\* The handler processed an email whose payload holds two events and the
\* email has one action: the second event met the duplicate check.
C5_Witness ==
  \E k \in DOMAIN outcomes :
    /\ outcomes[k].status = "ok"
    /\ outcomes[k].emailId \in DOMAIN emails
    /\ emails[outcomes[k].emailId].extracted_data = JsonParse(TxtTwo).value
    /\ Len(SelectSeq(actions, LAMBDA a : a.email_id = outcomes[k].emailId)) = 1

\* C6: status machine of processed_emails. Rows are never removed; a new
\* row has status RECEIVED and no payload; a row changes only from RECEIVED
\* to PROCESSED, in the result update of the record it was inserted for,
\* whose extraction call returned a text that parses, and the same step
\* sets the payload to the parsed text.
C6_StatusMachine ==
  [][ /\ Len(emails') >= Len(emails)
      /\ \A i \in DOMAIN emails' :
           IF i \notin DOMAIN emails
             THEN /\ emails'[i].processing_status = "RECEIVED"
                  /\ emails'[i].extracted_data = SqlNull
             ELSE emails'[i] # emails[i] =>
                  /\ emails[i].processing_status = "RECEIVED"
                  /\ emails'[i].processing_status = "PROCESSED"
                  /\ pc = "update" /\ cur.emailId = i
                  /\ cur.aiResults \in AiTexts
                  /\ JsonParse(cur.aiResults).ok
                  /\ emails'[i].extracted_data = JsonParse(cur.aiResults).value
                  /\ emails'[i].duck_id = emails[i].duck_id
                  /\ emails'[i].message_id = emails[i].message_id
    ]_vars

\* A row was moved to PROCESSED with an object payload while another row
\* of the same invocation stayed RECEIVED.
C6_Witness ==
  \E i, j \in DOMAIN emails :
    /\ emails[i].processing_status = "PROCESSED"
    /\ emails[i].extracted_data.kind = "object"
    /\ emails[j].processing_status = "RECEIVED"

\* C7: every payload that is set conforms to the extraction schema (an
\* object whose events field is a sequence).
C7_PayloadConforms ==
  \A i \in DOMAIN emails :
    emails[i].extracted_data # SqlNull => ConformsToSchema(emails[i].extracted_data)

\* Stages after the initial insert and before the result update is written.
MidStages == {"prompts", "extract", "update"}

\* C8: a record that failed in prompt resolution, in the extraction call or
\* in saveProcessedResults has its row at RECEIVED with no payload, and the
\* only actions of that email are those of direct materializer calls; and
\* a text that does not parse makes saveProcessedResults end the record as
\* failed without writing to either table.
C8_StuckAtReceived ==
  /\ [](\A k \in DOMAIN outcomes :
          (outcomes[k].status = "failed" /\ outcomes[k].stage \in MidStages) =>
            /\ outcomes[k].emailId \in DOMAIN emails
            /\ emails[outcomes[k].emailId].processing_status = "RECEIVED"
            /\ emails[outcomes[k].emailId].extracted_data = SqlNull
            /\ \A a \in DOMAIN actions :
                 actions[a].email_id = outcomes[k].emailId =>
                   \E l \in DOMAIN matLog : matLog[l].emailId = outcomes[k].emailId)
  /\ [][ (pc = "update" /\ ~JsonParse(cur.aiResults).ok) =>
           /\ emails' = emails
           /\ actions' = actions
           /\ outcomes' = Append(outcomes, Outcome(cur.shape, "failed", "update", cur.emailId))
           /\ pc' = "loop" /\ idx' = idx + 1
       ]_vars

\* One invocation left one record failed in prompt resolution and one
\* failed in saveProcessedResults, each with its RECEIVED row.
C8_Witness ==
  /\ Completed
  /\ \E k, m \in DOMAIN outcomes :
       /\ outcomes[k].status = "failed" /\ outcomes[k].stage = "prompts"
       /\ outcomes[m].status = "failed" /\ outcomes[m].stage = "update"
       /\ outcomes[k].emailId \in DOMAIN emails
       /\ outcomes[m].emailId \in DOMAIN emails

\* C9: a record of the nested shape is processed like a direct one: its
\* throw, if any, is caught per record, and the invocation returns 200.
C9_BothShapes ==
  Completed =>
    \A k \in DOMAIN outcomes :
      outcomes[k].shape = "nested" =>
        outcomes[k].status \in {"ok", "failed"} /\ statusCode = 200

\* --------------------------------------------------- prompt resolution
\* getPromptsForDuckType called directly on any content of the two prompt
\* tables.
InitPrompts ==
  /\ users = Users1
  /\ overrides \in SUBSET OverrideRows
  /\ typePrompts \in SUBSET TypePromptRows
  /\ emails = <<>>
  /\ actions = <<>>
  /\ HandlerIdle
  /\ matLog = <<>>
  /\ lastPrompts = NoCall
  /\ lastCall = NoProbe

CallGetPrompts ==
  /\ \E duckId \in {D1, D2, D3, NoDuck, Garbled} :
       \E r \in GetPromptsForDuckType(duckId) :
         lastPrompts' = [called |-> TRUE, duckId |-> duckId, result |-> r]
  /\ UNCHANGED <<storeConfig, emails, actions, conn, connects, ends, lateQuery, pc,
                 batchLen, idx, cur, outcomes, statusCode, used, matLog, lastCall>>

NextPrompts == CallGetPrompts

SpecPrompts == InitPrompts /\ [][NextPrompts]_vars

\* The last call was for an existing tenant whose identifier is well formed.
CalledForTenant ==
  /\ lastPrompts.called
  /\ IsValidUUID(lastPrompts.duckId)
  /\ \E d \in Ducks : d.id = lastPrompts.duckId

ActiveOverrides(duckId) ==
  {po \in overrides : po.duck_id = duckId /\ po.is_active}

ActiveTypePrompts(duckId) ==
  {tp \in typePrompts :
     /\ tp.is_active
     /\ \E d \in Ducks, dt \in DuckTypes :
          d.id = duckId /\ dt.name = d.type /\ tp.duck_type_id = dt.id}

\* The result lists exactly the texts of `rows`, one per row.
ListsExactly(result, rows) ==
  /\ result.ok
  /\ Len(result.prompts) = Cardinality(rows)
  /\ \E p \in Perms(rows) : result.prompts = [i \in DOMAIN p |-> p[i].prompt_text]

\* The result lists the texts of `rows` by descending version.
ListsByVersion(result, rows) ==
  /\ result.ok
  /\ \E p \in Perms(rows) :
       /\ \A i, j \in DOMAIN p : i < j => p[i].version >= p[j].version
       /\ result.prompts = [i \in DOMAIN p |-> p[i].prompt_text]

\* The fallback chain over the override set ov of the called tenant.
FallbackChain(ov) ==
  LET r == lastPrompts.result
      tp == ActiveTypePrompts(lastPrompts.duckId)
  IN IF ov # {}
       THEN ListsExactly(r, ov) /\ r.queries = <<"override">>
       ELSE IF tp # {}
         THEN ListsByVersion(r, tp)
         ELSE r.ok /\ r.prompts = <<DefaultPromptText>>

AddressTokens == {"p1", "p2", "p3", "acme", "beta", "info"}
MaxTokens == 3
LocalParts == UNION {[1..n -> AddressTokens] : n \in 0..MaxTokens}

InitDuck ==
  /\ \E c \in StoreConfigs : users = c[1] /\ overrides = c[2] /\ typePrompts = c[3]
  /\ emails = <<>>
  /\ actions = <<>>
  /\ HandlerIdle
  /\ matLog = <<>>
  /\ lastPrompts = NoCall
  /\ lastCall = NoProbe

\* getDuckId(client, toAddress) called directly.
CallGetDuckId ==
  /\ \E to \in LocalParts :
       lastCall' = [fn |-> "getDuckId", to |-> to, result |-> GetDuckId(to)]
  /\ UNCHANGED <<storeConfig, emails, actions, conn, connects, ends, lateQuery, pc,
                 batchLen, idx, cur, outcomes, statusCode, used, matLog, lastPrompts>>

NextDuck == CallGetDuckId

SpecDuck == InitDuck /\ [][NextDuck]_vars

\* The active tenants whose prefix and organization slug make up exactly
\* the local part `to`.
TenantsAddressedBy(to) ==
  {d \in Ducks :
     /\ d.is_active
     /\ \E o \in Organizations : o.id = d.org_id /\ to = <<d.email_prefix, o.slug>>}

\* C11: getDuckId returns the identifier of the active tenant the address
\* prefix.slug@domain names, and fails for every other input.
C11_TenantResolution ==
  lastCall.fn = "getDuckId" =>
    IF TenantsAddressedBy(lastCall.to) # {}
      THEN /\ lastCall.result.ok
           /\ lastCall.result.id \in {d.id : d \in TenantsAddressedBy(lastCall.to)}
      ELSE ~lastCall.result.ok

\* Stages up to and including tenant resolution.
EarlyStages == {"read", "net", "aicheck", "fetch", "duck"}

\* C12: when an invocation whose connection was established has completed,
\* a record that failed at or before tenant resolution has no row and the
\* invocation returned 200; a record that got past the initial insert has
\* one row of its own, RECEIVED or later PROCESSED, whatever message
\* identifiers other rows carry.
C12_RowCreation ==
  (Completed /\ connects > 0) =>
    \A k \in DOMAIN outcomes :
      /\ outcomes[k].stage \in EarlyStages =>
           outcomes[k].emailId = 0 /\ statusCode = 200
      /\ outcomes[k].stage \notin EarlyStages \cup {"insert"} =>
           /\ outcomes[k].emailId \in DOMAIN emails
           /\ \A m \in DOMAIN outcomes : outcomes[m].emailId = outcomes[k].emailId => m = k

\* ------------------------------------------------------ combinePrompts
\* combinePrompts called directly on email contents and non-empty lists of
\* instruction texts, some holding the phrase, some holding one half of it
\* at an edge, one holding it in lower case.
EmailContents ==
  { <<"Staff meeting on May 1">>, <<"Please answer in", "JSON", "format">>,
    <<"format">>, <<>> }

InstructionTexts ==
  { <<"Summarize the email">>, <<"Use", "JSON", "format", "only">>,
    <<"Answer as", "JSON">>, <<"format", "dates as ISO">>, <<"use json format">> }

MaxPrompts == 2

PromptLists == UNION {[1..n -> InstructionTexts] : n \in 1..MaxPrompts}

InitCombine ==
  /\ \E c \in StoreConfigs : users = c[1] /\ overrides = c[2] /\ typePrompts = c[3]
  /\ emails = <<>>
  /\ actions = <<>>
  /\ HandlerIdle
  /\ matLog = <<>>
  /\ lastPrompts = NoCall
  /\ lastCall = NoProbe

CallCombinePrompts ==
  /\ \E emailContent \in EmailContents, prompts \in PromptLists :
       lastCall' = [fn |-> "combinePrompts", emailContent |-> emailContent,
                    prompts |-> prompts,
                    result |-> CombinePrompts(emailContent, prompts)]
  /\ UNCHANGED <<storeConfig, emails, actions, conn, connects, ends, lateQuery, pc,
                 batchLen, idx, cur, outcomes, statusCode, used, matLog, lastPrompts>>

NextCombine == CallCombinePrompts

SpecCombine == InitCombine /\ [][NextCombine]_vars

\* Number of pieces before the i-th instruction text in the output.
RECURSIVE OffsetOf(_, _)
OffsetOf(prompts, i) ==
  IF i = 1 THEN 0 ELSE OffsetOf(prompts, i - 1) + Len(prompts[i - 1]) + 1

EndsWith(text, suffix) ==
  /\ Len(text) >= Len(suffix)
  /\ SubSeq(text, Len(text) - Len(suffix) + 1, Len(text)) = suffix

\* C13: the output of combinePrompts holds every instruction text, in the
\* order of the list, then the email content verbatim, and ends with the
\* default schema block iff no instruction text holds 'JSON format'.
C13_Combine ==
  lastCall.fn = "combinePrompts" =>
    LET out == lastCall.result
        prompts == lastCall.prompts
        content == lastCall.emailContent
        instrLen == OffsetOf(prompts, Len(prompts) + 1) - 1
        contentAt == instrLen + Len(AnalyzeHeader)
    IN  /\ \A i \in DOMAIN prompts :
             SubSeq(out, OffsetOf(prompts, i) + 1, OffsetOf(prompts, i) + Len(prompts[i]))
               = prompts[i]
        /\ SubSeq(out, contentAt + 1, contentAt + Len(content)) = content
        /\ EndsWith(out, SchemaBlock)
             <=> \A i \in DOMAIN prompts : ~Includes(prompts[i], JsonFormatPhrase)

\* Two instructions that hold the two halves of the phrase at their
\* touching edges, an email content that holds the whole phrase: the
\* schema block was appended.
C13_Witness ==
  /\ lastCall.fn = "combinePrompts"
  /\ lastCall.prompts = << <<"Answer as", "JSON">>, <<"format", "dates as ISO">> >>
  /\ Includes(lastCall.emailContent, JsonFormatPhrase)
  /\ EndsWith(lastCall.result, SchemaBlock)

\* Action rows owned by email row e.
ActionsOf(e) == {i \in DOMAIN actions : actions[i].email_id = e}

\* C14: when one invocation has completed in which two records delivered
\* the same message and both went through the whole pipeline with the same
\* extraction result, the second delivery added no action row: the rows of
\* the message are those of the first delivery.
C14_NoDuplicateOnRedelivery ==
  Completed =>
    \A k, m \in DOMAIN outcomes :
      ( /\ k < m
        /\ outcomes[k].status = "ok" /\ outcomes[m].status = "ok"
        /\ emails[outcomes[k].emailId].message_id = emails[outcomes[m].emailId].message_id
        /\ emails[outcomes[k].emailId].extracted_data = emails[outcomes[m].emailId].extracted_data )
      => ActionsOf(outcomes[m].emailId) = {}

\* The stages of a record in the order of the handler's inner try: the two
\* connectivity checks, then fetch, tenant resolution, initial insert,
\* prompt resolution with combine, extraction, result update, action
\* materialization.
StageOrder ==
  <<"net", "aicheck", "fetch", "duck", "insert", "prompts", "extract", "update", "materialize">>

Stages == {StageOrder[i] : i \in DOMAIN StageOrder}

StageIndex(stage) == CHOOSE i \in DOMAIN StageOrder : StageOrder[i] = stage

\* What a stage starts from: the results of the stages before it.
StageData ==
  /\ pc \in Stages => idx <= batchLen /\ Len(outcomes) = idx - 1
  /\ pc \in {"net", "aicheck", "fetch"} => cur.email = NoEmail
  /\ pc \in Stages /\ StageIndex(pc) > StageIndex("fetch") => cur.email # NoEmail
  /\ pc \in Stages /\ StageIndex(pc) <= StageIndex("duck") => cur.duckId = NoDuck
  /\ pc \in Stages /\ StageIndex(pc) > StageIndex("duck") => cur.duckId # NoDuck
  /\ pc \in Stages /\ StageIndex(pc) <= StageIndex("insert") => cur.emailId = 0
  /\ pc \in Stages /\ StageIndex(pc) > StageIndex("insert") =>
       /\ cur.emailId \in DOMAIN emails
       /\ emails[cur.emailId].processing_status =
            IF pc = "materialize" THEN "PROCESSED" ELSE "RECEIVED"
  /\ pc \in Stages /\ StageIndex(pc) <= StageIndex("prompts") => cur.prompt = NoPrompt
  /\ pc \in Stages /\ StageIndex(pc) > StageIndex("prompts") => cur.prompt # NoPrompt
  /\ pc \in Stages /\ StageIndex(pc) <= StageIndex("extract") => cur.aiResults = Undefined
  /\ pc \in Stages /\ StageIndex(pc) > StageIndex("extract") => cur.aiResults # Undefined

\* One step of the handler, seen from the stages.
StageStep ==
  /\ (pc \in Stages /\ pc' # "loop") =>
       /\ pc # "materialize"
       /\ pc' = StageOrder[StageIndex(pc) + 1]
       /\ idx' = idx /\ outcomes' = outcomes
  /\ (pc \in Stages /\ pc' = "loop") =>
       /\ idx' = idx + 1
       /\ Len(outcomes') = idx
       /\ SubSeq(outcomes', 1, Len(outcomes)) = outcomes
       /\ outcomes'[idx].stage = pc
       /\ outcomes'[idx].status = "ok" => pc = "materialize"
  /\ pc = "loop" => pc' \in {StageOrder[1], "finally"} /\ idx' = idx
  /\ pc \notin Stages \cup {"loop"} => pc' \notin Stages

\* C15: the stages of a record run in the fixed order, each at most once;
\* the first stage that fails ends the record, and the stages of the next
\* record start only after the record before it has ended.
C15_StageOrder == [](StageData) /\ [][StageStep]_vars

\* The second record of a batch is at its last stage after the first one
\* failed at tenant resolution.
C15_Witness ==
  /\ pc = "materialize" /\ idx = 2
  /\ outcomes[1].status = "failed" /\ outcomes[1].stage = "duck"

\* Users of the organization that owns tenant duckId, and the users with
\* the global administrative role.
OrgUserIds(duckId) ==
  {u.id : u \in {x \in users : \E d \in Ducks : d.id = duckId /\ d.org_id = x.organization_id}}

AdminUserIds == {u.id : u \in {x \in users : x.role = "SCHOOLADMIN"}}

\* C16: in a materialization step of the handler every inserted action
\* belongs to a user of the tenant's organization when there is one,
\* otherwise to a global administrator; when there is neither and the
\* extraction result holds an event, the step inserts nothing and the
\* record ends as failed at materialization, its row being PROCESSED.
C16_ActingUser ==
  [][ pc = "materialize" =>
        /\ \A i \in (DOMAIN actions') \ (DOMAIN actions) :
             actions'[i].user_id \in
               (IF OrgUserIds(cur.duckId) # {} THEN OrgUserIds(cur.duckId) ELSE AdminUserIds)
        /\ (OrgUserIds(cur.duckId) = {} /\ AdminUserIds = {} /\ EventCount(cur.aiResults) > 0) =>
             /\ actions' = actions
             /\ pc' = "loop"
             /\ outcomes'[idx].status = "failed" /\ outcomes'[idx].stage = "materialize"
             /\ emails'[cur.emailId].processing_status = "PROCESSED" ]_vars

\* A record has failed at materialization for want of any acting user: its
\* row is PROCESSED with an event in its payload, and no action exists.
C16_Witness ==
  /\ users = {}
  /\ actions = <<>>
  /\ \E k \in DOMAIN outcomes :
       /\ outcomes[k].status = "failed" /\ outcomes[k].stage = "materialize"
       /\ emails[outcomes[k].emailId].processing_status = "PROCESSED"
       /\ emails[outcomes[k].emailId].extracted_data.kind = "object"
       /\ emails[outcomes[k].emailId].extracted_data.hasEvents
       /\ Len(emails[outcomes[k].emailId].extracted_data.events) > 0

\* The field f of a stored object, undefined when it has none.
FieldOf(object, f) == IF f \in DOMAIN object THEN object[f] ELSE Undefined

\* The note rule (title, else description, else the fixed text) applied to
\* what an object holds.
NoteFrom(object) ==
  IF Truthy(FieldOf(object, "title")) THEN FieldOf(object, "title")
  ELSE IF Truthy(FieldOf(object, "description")) THEN FieldOf(object, "description")
  ELSE "No title provided"

\* The rows a logged call of the materializer inserted.
InsertedBy(call) == {call.after[i] : i \in (Len(call.before) + 1)..Len(call.after)}

\* What an inserted row holds, its context aside.
ActionFields(call, a) ==
  /\ a.action_type = "EVENT"
  /\ a.status = "ACTIVE"
  /\ a.email_id = call.emailId
  /\ a.duck_id = call.duckId
  /\ \E k \in DOMAIN JsonParse(call.text).value.events :
       LET event == JsonParse(call.text).value.events[k]
       IN /\ a.note = NoteFrom(event)
          /\ Truthy(event.title) => a.note = event.title

\* C17: every row inserted by extractAndSaveEmailActions has type EVENT,
\* status ACTIVE, the given email and tenant, the note of one of the events
\* (its title when it has one), and a context from which that note can be
\* rebuilt by the same rule.
C17_ActionContent ==
  \A c \in DOMAIN matLog :
    \A a \in InsertedBy(matLog[c]) :
      /\ ActionFields(matLog[c], a)
      /\ NoteFrom(a.context) = a.note

\* An identifier that is not of the 8-4-4-4-12 hex shape with a version
\* digit 1..5 and a variant digit 8, 9, a or b.
Malformed(id) ==
  ~id.hexShape \/ id.version \notin 1..5 \/ id.variant \notin {8, 9, 10, 11}

\* C18: getPromptsForDuckType called with a malformed identifier fails
\* with the invalid-identifier error and has issued no store query.
C18_FailFast ==
  (lastPrompts.called /\ Malformed(lastPrompts.duckId)) =>
    /\ ~lastPrompts.result.ok
    /\ lastPrompts.result.err = "Invalid UUID"
    /\ lastPrompts.result.queries = <<>>

\* The call was made with a garbled copy of the identifier of a tenant that
\* has an active override in the store.
C18_Witness ==
  /\ lastPrompts.called
  /\ lastPrompts.duckId = Garbled
  /\ ~lastPrompts.result.ok
  /\ ActiveOverrides(D1) # {}

\* C19: as long as the materializer has been called by the handler only,
\* every action row belongs to an email row that is PROCESSED and whose
\* payload is set, to a parsed JSON object.
C19_ActionsOnlyForProcessed ==
  matLog = <<>> =>
    \A i \in DOMAIN actions :
      /\ actions[i].email_id \in DOMAIN emails
      /\ emails[actions[i].email_id].processing_status = "PROCESSED"
      /\ emails[actions[i].email_id].extracted_data # SqlNull
      /\ emails[actions[i].email_id].extracted_data.kind = "object"

\* The handler has completed an invocation that left an action row.
C19_Witness ==
  /\ Completed
  /\ matLog = <<>>
  /\ Len(actions) >= 1
  /\ \E k \in DOMAIN outcomes :
       outcomes[k].status = "ok" /\ ActionsOf(outcomes[k].emailId) # {}

\* The two connectivity checks.
CheckStages == {"net", "aicheck"}

\* C20: no record is fetched before both connectivity checks; when an
\* invocation whose connection was established has completed, a record
\* that failed at a check is a per-record failure without a row, the
\* record after it was taken up, and the invocation returned 200.
C20_ConnectivityGate ==
  /\ pc \in CheckStages => cur.email = NoEmail /\ cur.emailId = 0
  /\ (Completed /\ connects > 0) =>
       \A k \in DOMAIN outcomes :
         outcomes[k].stage \in CheckStages =>
           /\ outcomes[k].status = "failed"
           /\ outcomes[k].emailId = 0
           /\ k < batchLen => k + 1 \in DOMAIN outcomes
           /\ statusCode = 200

====
